---- MODULE Spec2Model ----
(***************************************************************************)
(* A model of wikiedits.py: the paginated fetch generator get_edits, the   *)
(* two aggregations get_edits_per_day and get_edits_for_day, and main.     *)
(*                                                                         *)
(* Python values that the code tests for truthiness are tagged records:    *)
(* None, IntV(n), StrV(s).  A JSON object (a page response) is a TLA+      *)
(* record whose DOMAIN is the set of keys present.  A timestamp string     *)
(* "<date>T<time>Z" is the record of its two halves around the 'T'.        *)
(* A generator's yield hands the item to its consumer, whose loop body     *)
(* runs before the generator is resumed: one step of the model.            *)
(***************************************************************************)
EXTENDS Integers, Sequences, FiniteSets, TLC

(* ------------------------------ bounds -------------------------------- *)
\* The most records the upstream history holds.
MaxEdits == 3
\* The most pages the upstream history is split into.
MaxPages == 2
\* The most page requests one fetch is followed for.
MaxRequests == 3
\* The largest limit argument tried.
MaxLimit == 2

(* --------------------------- Python values ---------------------------- *)
None == [t |-> "None"]
IntV(n) == [t |-> "int", v |-> n]
StrV(s) == [t |-> "str", v |-> s]

IsNone(x) == x.t = "None"

\* Python truthiness: None, 0 and '' are false.
Truthy(x) ==
  CASE x.t = "None" -> FALSE
    [] x.t = "int" -> x.v # 0
    [] x.t = "str" -> x.v # ""

\* dict[key] = value
Put(d, k, val) == [x \in (DOMAIN d) \cup {k} |-> IF x = k THEN val ELSE d[x]]

(* ------------------------------ inputs -------------------------------- *)
Users == {"Qwerty0"}
DateArgs == {"2017-02-14"}
TimeLimitArgs == {1}
Titles == {"A", "B", "C"}
ErrorCodes == {"x"}
ErrorInfos == {"y"}

SecondsPerDay == 86400

\* The values datetime.now() may return, in seconds; it never goes back.
ClockValues == {3 * SecondsPerDay, 3 * SecondsPerDay + 1}

\* Timestamps "<date>T<time>Z": the date as a day number, the time in seconds.
Stamps == {[date |-> 1, time |-> 0], [date |-> 2, time |-> 0], [date |-> 2, time |-> 1]}

\* The edit records of a history whose timestamps vary (one title) and of a
\* single day's history whose titles vary (one timestamp).
StampRecords == {[timestamp |-> s, title |-> "A"] : s \in Stamps}
TitleRecords == {[timestamp |-> [date |-> 2, time |-> 0], title |-> ti] : ti \in Titles}

SeqsUpTo(S, n) == UNION {[1..k -> S] : k \in 0..n}

(* ------------------------------ constants ----------------------------- *)
API_SCHEME == "https"
API_DOMAIN == "en.wikipedia.org"
API_PATH == "/w/api.php"
API_STATIC_PARAMS ==
  [action |-> "query", format |-> "json", list |-> "usercontribs",
   formatversion |-> "2", uclimit |-> "max"]

VARIABLES
  user, date, limit, time_limit,  \* get_edits: its arguments
  start, end, total_edits, cont,  \* get_edits: its locals
  data, idx, pc,                  \* the page in hand, the for loop's position, the generator's position
  urls, responses, yielded,       \* the requests issued, the responses received, the records yielded
  log,                            \* logging.critical messages
  pages, now,                     \* upstream: the pages served so far; the clock
  consumer,                       \* who iterates get_edits: "caller", "per_day", "for_day"
  last, date_count, emitted,      \* get_edits_per_day: locals and the tuples yielded
  articles, article_counts, result, \* get_edits_for_day: locals and the dicts yielded
  args, main_pc, stdout           \* main: parsed arguments, position, printed items

genVars == <<user, date, limit, time_limit, start, end, total_edits, cont, data, idx,
             pc, urls, responses, yielded>>
perDayVars == <<last, date_count, emitted>>
forDayVars == <<articles, article_counts, result>>
mainVars == <<args, main_pc, stdout>>
vars == <<genVars, log, pages, now, consumer, perDayVars, forDayVars, mainVars>>

(* ------------------------------ make_url ------------------------------ *)
\* The query parameters of the URL; urlencode/urlunparse keep each of them.
make_url(u, c, s, e) ==
  LET p0 == Put(API_STATIC_PARAMS, "ucuser", u)
      p1 == IF Truthy(c) THEN Put(p0, "uccontinue", c.v) ELSE p0
      p2 == IF Truthy(s) THEN Put(p1, "ucstart", s.v) ELSE p1
      p3 == IF Truthy(e) THEN Put(p2, "ucend", e.v) ELSE p2
  IN [scheme |-> API_SCHEME, netloc |-> API_DOMAIN, path |-> API_PATH, query |-> p3]

(* ------------------------------ upstream ------------------------------ *)
HasError(d) == "error" \in DOMAIN d
HasContinue(d) == "continue" \in DOMAIN d
Contribs(d) == d.query.usercontribs

\* The continuation token the server gives with page k.
TokenOf(k) == "c" \o ToString(k)

\* Records in the pages served so far.
RECURSIVE CountEdits(_)
CountEdits(ps) ==
  IF ps = <<>> THEN 0
  ELSE (IF HasError(Head(ps)) THEN 0 ELSE Len(Contribs(Head(ps)))) + CountEdits(Tail(ps))

\* The page a request asks for: the first without uccontinue, else the one
\* after the page that carried the token.
PageIndex(url) ==
  IF "uccontinue" \notin DOMAIN url.query THEN 1
  ELSE 1 + (CHOOSE j \in 1..Len(pages) :
              /\ HasContinue(pages[j])
              /\ pages[j].continue.uccontinue = url.query.uccontinue)

\* The records a history is drawn from: get_edits_for_day reads only the
\* titles, the other consumers and the time window only the timestamps.
Universe == IF consumer = "for_day" THEN TitleRecords ELSE StampRecords

\* What the server may answer for a page k it has not served yet.
NewPages(k) ==
  LET bodies == SeqsUpTo(Universe, MaxEdits - CountEdits(pages))
      plain == {[query |-> [usercontribs |-> b]] : b \in bodies}
      more == IF k < MaxPages
              THEN {[query |-> [usercontribs |-> b], continue |-> [uccontinue |-> tk]] :
                      b \in bodies, tk \in {"", TokenOf(k)}}
              ELSE {}
      errs == {[error |-> [code |-> c, info |-> i]] : c \in ErrorCodes, i \in ErrorInfos}
  IN plain \cup more \cup errs

(* --------------------------- pure helpers ----------------------------- *)
\* datetime.strptime(timestamp, '%Y-%m-%dT%H:%M:%SZ'), in seconds.
strptime(ts) == ts.date * SecondsPerDay + ts.time
\* timedelta(days=n), in seconds.
timedelta(n) == n * SecondsPerDay
\* timestamp.split('T')[0]
DateOf(edit) == edit.timestamp.date

\* A variant that leaves the server's info out of the message.
ApiErrorMessageNoInfo(d) == <<"API Error: ", d.error.code>>
\* 'API Error: {}\ninfo: {}'.format(code, info), as its pieces.
ApiErrorMessage(d) == <<"API Error: ", d.error.code, "\ninfo: ", d.error.info>>
\* 'API returned an HTTP error {}: {}'.format(code, reason), as its pieces.
HttpErrorMessage(status, reason) == <<"API returned an HTTP error ", status, ": ", reason>>

\* The binding of a call get_edits(user, *positional, **keywords) to the
\* parameters (user, date=None, limit=None, time_limit=None).
Keyword(kw, name) == IF name \in DOMAIN kw THEN kw[name] ELSE None
get_edits_params(positional, kw) ==
  [date |-> IF Len(positional) >= 1 THEN positional[1] ELSE Keyword(kw, "date"),
   limit |-> IF Len(positional) >= 2 THEN positional[2] ELSE Keyword(kw, "limit"),
   time_limit |-> IF Len(positional) >= 3 THEN positional[3] ELSE Keyword(kw, "time_limit")]

\* The call main makes in its first pass: get_edits(args.user, args.limit).
MainRawCall(a) == get_edits_params(<<a.limit>>, <<>>)
\* get_edits_per_day's call: get_edits(user, limit=limit, time_limit=time_limit).
PerDayCall(l, tl) == get_edits_params(<<>>, [limit |-> l, time_limit |-> tl])
\* get_edits_for_day's call: get_edits(user, date=date).
ForDayCall(d) == get_edits_params(<<>>, [date |-> d])

\* A variant with the comparison the wrong way round.
TimeExpiredFlipped(edit, t) == strptime(edit.timestamp) > t - timedelta(time_limit.v)
\* if time_limit: formatted_time < datetime.now() - timedelta(days=time_limit)
TimeExpired(edit, t) == strptime(edit.timestamp) < t - timedelta(time_limit.v)
\* if limit and total_edits > limit
OverLimit(n) == Truthy(limit) /\ n > limit.v
\* cont = data['continue']['uccontinue']
NextCont(d) == StrV(d.continue.uccontinue)

(* ------------------------------- Init --------------------------------- *)
\* What datetime.now() returns when the fetch starts.
NowAtStart == 3 * SecondsPerDay

Fresh ==
  /\ start = None /\ end = None /\ total_edits = 0 /\ cont = None
  /\ data = None /\ idx = 0
  /\ urls = <<>> /\ responses = <<>> /\ yielded = <<>>
  /\ log = <<>> /\ pages = <<>>
  /\ now = NowAtStart
  /\ last = None /\ date_count = 0 /\ emitted = <<>>
  /\ articles = <<>> /\ article_counts = <<>> /\ result = <<>>
  /\ stdout = <<>>

OptDates == {None} \cup {StrV(d) : d \in DateArgs}
OptLimits == {None} \cup {IntV(n) : n \in 1..MaxLimit}
OptTimeLimits == {None} \cup {IntV(n) : n \in TimeLimitArgs}
CliLimits == {None} \cup {IntV(n) : n \in 0..MaxLimit}

\* A caller iterates get_edits(user, date, limit, time_limit) itself.
InitGetEdits ==
  /\ consumer = "caller" /\ main_pc = "lib" /\ args = None /\ pc = "entry"
  /\ date \in OptDates /\ limit \in OptLimits /\ time_limit \in OptTimeLimits

\* A caller iterates get_edits_per_day(user, limit, time_limit).
InitPerDay ==
  /\ consumer = "per_day" /\ main_pc = "lib" /\ args = None /\ pc = "entry"
  /\ \E l \in OptLimits, tl \in OptTimeLimits :
       LET p == PerDayCall(l, tl)
       IN date = p.date /\ limit = p.limit /\ time_limit = p.time_limit

\* A caller iterates get_edits_for_day(user, date).
InitForDay ==
  /\ consumer = "for_day" /\ main_pc = "lib" /\ args = None /\ pc = "entry"
  /\ \E d \in OptDates \ {None} :
       LET p == ForDayCall(d)
       IN date = p.date /\ limit = p.limit /\ time_limit = p.time_limit

\* The script is run: main(argv) with the parsed arguments.
InitMain ==
  /\ consumer = "none" /\ main_pc = "start" /\ pc = "none"
  /\ args \in [limit : CliLimits, date : OptDates]
  /\ date = None /\ limit = None /\ time_limit = None

Init ==
  /\ user \in Users
  /\ Fresh
  /\ (InitGetEdits \/ InitPerDay \/ InitForDay \/ InitMain)

(* ------------------------- the consumers' code ------------------------ *)
\* print(...) in main, each item with the pass that printed it; a library
\* caller prints nothing.
print_items(items) ==
  stdout' = IF main_pc = "lib" THEN stdout
            ELSE stdout \o [i \in 1..Len(items) |-> [pass |-> main_pc, item |-> items[i]]]

\* A variant that resets the count before it yields the finished bucket.
PerDayBodyResetFirst(edit) ==
  LET d == DateOf(edit)
      changed == IsNone(last) \/ d # last.v
      out == IF changed /\ ~IsNone(last) THEN <<<<last.v, 0>>>> ELSE <<>>
  IN /\ emitted' = emitted \o out
     /\ last' = IF changed THEN StrV(d) ELSE last
     /\ date_count' = (IF changed THEN 0 ELSE date_count) + 1
     /\ print_items(out)

\* get_edits_per_day, lines 138-144: the loop body for one edit.
PerDayBody(edit) ==
  LET d == DateOf(edit)
      changed == IsNone(last) \/ d # last.v
      out == IF changed /\ ~IsNone(last) THEN <<<<last.v, date_count>>>> ELSE <<>>
  IN /\ emitted' = emitted \o out
     /\ last' = IF changed THEN StrV(d) ELSE last
     /\ date_count' = (IF changed THEN 0 ELSE date_count) + 1
     /\ print_items(out)

\* A variant that forgets the bucket in progress when the input ends.
PerDayEndNoFlush ==
  /\ UNCHANGED <<last, date_count, emitted>>
  /\ print_items(<<>>)

\* get_edits_per_day, lines 145-146: after the loop.
PerDayEnd ==
  LET out == IF ~IsNone(last) THEN <<<<last.v, date_count>>>> ELSE <<>>
  IN /\ emitted' = emitted \o out
     /\ UNCHANGED <<last, date_count>>
     /\ print_items(out)

\* A variant that lists the title at every edit, not only at its first.
ForDayBodyAppendAlways(edit) ==
  LET title == edit.title
  IN /\ articles' = Append(articles, title)
     /\ article_counts' =
          Put(article_counts, title,
              IF title \in DOMAIN article_counts THEN article_counts[title] + 1 ELSE 1)

\* get_edits_for_day, lines 153-158: the loop body for one edit.
ForDayBody(edit) ==
  LET title == edit.title
  IN IF title \notin DOMAIN article_counts
     THEN /\ articles' = Append(articles, title)
          /\ article_counts' = Put(article_counts, title, 1)
     ELSE /\ articles' = articles
          /\ article_counts' = Put(article_counts, title, article_counts[title] + 1)

\* get_edits_for_day, lines 159-160: after the loop.
ForDayEnd ==
  LET out == [i \in 1..Len(articles) |->
                [title |-> articles[i], edits |-> article_counts[articles[i]]]]
  IN /\ result' = out
     /\ UNCHANGED <<articles, article_counts>>
     /\ print_items(out)

\* The consumer's loop body runs on the edit that get_edits yields.
Body(edit) ==
  /\ main_pc' = main_pc
  /\ CASE consumer = "per_day" -> PerDayBody(edit) /\ UNCHANGED forDayVars
       [] consumer = "for_day" ->
            ForDayBody(edit) /\ UNCHANGED <<result, perDayVars, stdout>>
       [] OTHER -> print_items(<<edit>>) /\ UNCHANGED <<perDayVars, forDayVars>>

\* get_edits is exhausted (return or break): the consumer's loop ends and the
\* code after it runs; main returns after its last loop.
Exhausted ==
  CASE consumer = "per_day" ->
         /\ PerDayEnd /\ UNCHANGED forDayVars
         /\ main_pc' = IF main_pc = "lib" THEN main_pc ELSE "exit0"
    [] consumer = "for_day" ->
         /\ ForDayEnd /\ UNCHANGED perDayVars
         /\ main_pc' = IF main_pc = "lib" THEN main_pc ELSE "exit0"
    [] OTHER -> UNCHANGED <<perDayVars, forDayVars, main_pc, stdout>>

\* An exception leaves every generator and loop.
Raised == UNCHANGED <<perDayVars, forDayVars, stdout>>

\* fail(message), lines 171-176: log, then sys.exit(1) or raise Exception.
fail(message) ==
  /\ log' = Append(log, message)
  /\ pc' = "fail"
  /\ main_pc' = IF main_pc = "lib" THEN main_pc ELSE "exit1"
  /\ Raised

(* ------------------------------ get_edits ----------------------------- *)
\* Lines 73-81: the window of the date, the counters.
get_edits_begin ==
  /\ pc = "entry"
  /\ total_edits' = 0 /\ cont' = None
  /\ IF Truthy(date)
     THEN IF date.t = "str"
          THEN /\ end' = StrV(date.v \o "T00:00:00Z")
               /\ start' = StrV(date.v \o "T23:59:59Z")
               /\ pc' = "loop" /\ main_pc' = main_pc
          ELSE \* int + str: TypeError
               /\ UNCHANGED <<start, end>>
               /\ pc' = "TypeError"
               /\ main_pc' = IF main_pc = "lib" THEN main_pc ELSE "traceback"
     ELSE /\ end' = None /\ start' = None
          /\ pc' = "loop" /\ main_pc' = main_pc
  /\ UNCHANGED <<user, date, limit, time_limit, data, idx, urls, responses, yielded,
                 log, pages, now, consumer, perDayVars, forDayVars, args, stdout>>

\* Lines 84-88 with get_data: one page request and the check of its answer.
get_edits_request ==
  /\ pc = "loop"
  /\ Len(urls) < MaxRequests
  /\ LET url == make_url(user, cont, start, end)
         k == PageIndex(url)
     IN /\ urls' = Append(urls, url)
        /\ \/ \* response.getcode() != 200
              /\ fail(HttpErrorMessage("204", "No Content"))
              /\ UNCHANGED <<data, idx, responses, pages>>
           \/ \E d \in (IF k <= Len(pages) THEN {pages[k]} ELSE NewPages(k)) :
                /\ pages' = IF k <= Len(pages) THEN pages ELSE Append(pages, d)
                /\ responses' = Append(responses, d)
                /\ data' = d
                /\ IF HasError(d)
                   THEN fail(ApiErrorMessage(d)) /\ idx' = idx
                   ELSE /\ pc' = "for" /\ idx' = 1
                        /\ UNCHANGED <<log, main_pc, perDayVars, forDayVars, stdout>>
  /\ UNCHANGED <<user, date, limit, time_limit, start, end, total_edits, cont, yielded,
                 now, consumer, args>>

\* return inside the for loop.
Return(n) ==
  /\ total_edits' = n
  /\ pc' = "done"
  /\ UNCHANGED <<idx, yielded>>
  /\ Exhausted

\* Lines 97-101: count the edit, then stop on the limit or yield it.
CountAndYield(edit) ==
  LET n == total_edits + 1
  IN IF OverLimit(n)
     THEN Return(n)
     ELSE /\ total_edits' = n
          /\ yielded' = Append(yielded, edit)
          /\ idx' = idx + 1
          /\ pc' = pc
          /\ Body(edit)

\* Lines 90-101: one iteration of the for loop over the page's edits.
get_edits_edit ==
  /\ pc = "for"
  /\ idx <= Len(Contribs(data))
  /\ LET edit == Contribs(data)[idx]
     IN IF Truthy(time_limit)
        THEN \E t \in ClockValues :
               /\ t >= now
               /\ now' = t
               /\ IF TimeExpired(edit, t) THEN Return(total_edits) ELSE CountAndYield(edit)
        ELSE now' = now /\ CountAndYield(edit)
  /\ UNCHANGED <<user, date, limit, time_limit, start, end, cont, data, urls, responses,
                 log, pages, consumer, args>>

\* Lines 103-106: the page is used up; follow its token or stop.
get_edits_page_end ==
  /\ pc = "for"
  /\ idx > Len(Contribs(data))
  /\ IF HasContinue(data)
     THEN /\ cont' = NextCont(data)
          /\ pc' = "loop"
          /\ UNCHANGED <<perDayVars, forDayVars, main_pc, stdout>>
     ELSE /\ cont' = cont
          /\ pc' = "done"
          /\ Exhausted
  /\ UNCHANGED <<user, date, limit, time_limit, start, end, total_edits, data, idx, urls,
                 responses, yielded, log, pages, now, consumer, args>>

(* -------------------------------- main -------------------------------- *)
\* A new call of get_edits on behalf of consumer c.
NewFetch(c, p) ==
  /\ consumer' = c
  /\ date' = p.date /\ limit' = p.limit /\ time_limit' = p.time_limit
  /\ pc' = "entry"
  /\ start' = None /\ end' = None /\ total_edits' = 0 /\ cont' = None
  /\ data' = None /\ idx' = 0
  /\ urls' = <<>> /\ responses' = <<>> /\ yielded' = <<>>
  /\ last' = None /\ date_count' = 0 /\ emitted' = <<>>
  /\ articles' = <<>> /\ article_counts' = <<>> /\ result' = <<>>

\* Lines 59-63: the per-article report of a day, or the raw pass.
main_first_pass ==
  /\ main_pc = "start"
  /\ IF Truthy(args.date)
     THEN NewFetch("for_day", ForDayCall(args.date)) /\ main_pc' = "for_day"
     ELSE NewFetch("caller", MainRawCall(args)) /\ main_pc' = "raw"
  /\ UNCHANGED <<user, log, pages, now, args, stdout>>

\* Line 66: the per-day pass, after the raw pass has ended.
main_second_pass ==
  /\ main_pc = "raw"
  /\ pc = "done"
  /\ NewFetch("per_day", PerDayCall(args.limit, None))
  /\ main_pc' = "per_day"
  /\ UNCHANGED <<user, log, pages, now, args, stdout>>

Next ==
  \/ get_edits_begin
  \/ get_edits_request
  \/ get_edits_edit
  \/ get_edits_page_end
  \/ main_first_pass
  \/ main_second_pass

Spec == Init /\ [][Next]_vars

(* ======================== properties of the code ======================= *)
Min(a, b) == IF a <= b THEN a ELSE b
IsPrefix(a, b) == Len(a) <= Len(b) /\ SubSeq(b, 1, Len(a)) = a

\* The usercontribs of a sequence of page responses, concatenated.
RECURSIVE ConcatContribs(_)
ConcatContribs(ps) ==
  IF ps = <<>> THEN <<>>
  ELSE (IF HasError(Head(ps)) THEN <<>> ELSE Contribs(Head(ps))) \o ConcatContribs(Tail(ps))

\* The upstream history as far as the server has served it, and whether that
\* is all of it (the last page served carries no token).
History == ConcatContribs(pages)
HistoryComplete == pages # <<>> /\ ~HasContinue(pages[Len(pages)])
\* The records received, in the order of the responses.
Received == ConcatContribs(responses)

DatesOf(edits) == [i \in 1..Len(edits) |-> DateOf(edits[i])]
TitlesOf(edits) == [i \in 1..Len(edits) |-> edits[i].title]

\* The distinct values of a sequence, in the order of their first occurrence.
FirstOccurrences(xs) == {i \in 1..Len(xs) : \A j \in 1..(i - 1) : xs[j] # xs[i]}
RECURSIVE Pick(_, _)
Pick(xs, I) ==
  IF I = {} THEN <<>>
  ELSE LET m == CHOOSE i \in I : \A j \in I : i <= j
       IN <<xs[m]>> \o Pick(xs, I \ {m})
DistinctInOrder(xs) == Pick(xs, FirstOccurrences(xs))
CountOf(x, xs) == Cardinality({i \in 1..Len(xs) : xs[i] = x})
Contiguous(xs) ==
  \A i, j, k \in 1..Len(xs) : (i < j /\ j < k /\ xs[i] = xs[k]) => xs[j] = xs[i]

RECURSIVE Sum(_)
Sum(ns) == IF ns = <<>> THEN 0 ELSE Head(ns) + Sum(Tail(ns))

\* (value, count) tuples written out: each value repeated count times.
RECURSIVE Expand(_)
Expand(ts) ==
  IF ts = <<>> THEN <<>>
  ELSE [i \in 1..Head(ts)[2] |-> Head(ts)[1]] \o Expand(Tail(ts))
\* ts is the run-length encoding of xs: its maximal runs of equal values.
IsRunsOf(ts, xs) ==
  /\ Expand(ts) = xs
  /\ \A i \in 1..Len(ts) : ts[i][2] >= 1
  /\ \A i \in 1..(Len(ts) - 1) : ts[i][1] # ts[i + 1][1]

SameValue(a, b) == a.t = b.t /\ (a.t # "None" => a.v = b.v)

(* C1: for every upstream history of totalEdits records, in any split into
   pages, and every positive limit N (no date, no time window, no error
   page), a fully consumed get_edits(user, limit=N) has yielded exactly
   min(N, totalEdits) records.  While the server has pages left unserved,
   totalEdits is only known to be at least the records served: the count is
   then min(N, totalEdits) for every such history only if it is N and N
   records were served. *)
C1_LimitYieldsMin ==
  (/\ consumer = "caller" /\ main_pc = "lib" /\ pc = "done"
   /\ Truthy(limit) /\ limit.v > 0 /\ IsNone(date) /\ IsNone(time_limit))
  => IF HistoryComplete
     THEN Len(yielded) = Min(limit.v, Len(History))
     ELSE Len(yielded) = limit.v /\ Len(History) >= limit.v

(* C2: for all combinations of date, limit and time_limit, at every point
   of the consumption of get_edits the records yielded so far are a prefix
   of the concatenation of the history's pages in upstream order: nothing
   skipped, duplicated or reordered. *)
C2_YieldedPrefixOfHistory == IsPrefix(yielded, History)

\* The edit is older than the window of time_limit days that ends at t.
OlderAt(edit, t) == strptime(edit.timestamp) < t - timedelta(time_limit.v)
HasOlder(d) == ~HasError(d) /\ \E i \in 1..Len(Contribs(d)) : OlderAt(Contribs(d)[i], NowAtStart)
\* What has been yielded and requested, against the window at the start.
C3_WindowState ==
  Truthy(time_limit) =>
    /\ IsPrefix(yielded, Received)
    /\ \A i \in 1..Len(yielded) : ~OlderAt(Received[i], NowAtStart)
    /\ \A m \in 1..Len(responses) : HasOlder(responses[m]) => Len(urls) = m
    /\ (/\ pc = "done" /\ ~Truthy(limit)
        /\ \A i \in 1..Len(Received) : ~OlderAt(Received[i], now))
       => yielded = Received
\* An edit is yielded only if inside the window at the reading made for it.
C3_WindowStep ==
  (Truthy(time_limit) /\ Len(yielded') > Len(yielded) /\ pc = "for")
  => ~OlderAt(yielded'[Len(yielded')], now')
(* C3: with time_limit = D days, get_edits yields only edits that are not
   older than now - D days when they are examined, and stops at the first
   older one: nothing at or after it in the order received is yielded, no
   further page is requested, even when later records are inside the window
   again; and it stops for age only at such an edit.  The clock only
   advances, so an edit older than the window when the fetch starts is older
   at every later reading. *)
C3_TimeWindow == [](C3_WindowState) /\ [][C3_WindowStep]_vars
C3_Witness ==
  /\ Truthy(time_limit) /\ pc = "done" /\ yielded # <<>>
  /\ \E i, j \in 1..Len(Received) :
       i < j /\ OlderAt(Received[i], NowAtStart) /\ ~OlderAt(Received[j], now)

\* A formatted message holds the piece.
Contains(message, piece) == \E i \in 1..Len(message) : message[i] = piece
(* C4: when a page response carries an error envelope the fetch fails at
   once with a message holding the server's code and info: that response is
   the last one, no request follows it, nothing of it is yielded, and the
   records yielded are exactly those of the pages before it. *)
C4_ErrorEnvelopeFails ==
  \A m \in 1..Len(responses) :
    HasError(responses[m]) =>
      /\ m = Len(responses) /\ Len(urls) = m /\ data = responses[m]
      /\ pc = "fail"
      /\ Len(log) = 1
      /\ Contains(log[1], responses[m].error.code)
      /\ Contains(log[1], responses[m].error.info)
      /\ yielded = ConcatContribs(SubSeq(responses, 1, m - 1))
C4_Witness ==
  /\ Len(responses) >= 2 /\ HasError(responses[Len(responses)])
  /\ yielded # <<>> /\ pc = "fail"

\* The ucstart/ucend parameters of a request.
Window(url) == [k \in (DOMAIN url.query) \cap {"ucstart", "ucend"} |-> url.query[k]]
(* C5: every request of one fetch carries the same user and the same
   ucstart/ucend window; whenever a response carries a continuation token,
   whatever string it is, the next request carries exactly that token as
   uccontinue; after the first response without a token no request
   follows. *)
C5_TokenEchoed ==
  \A i \in 1..Len(urls) :
    /\ urls[i].query.ucuser = user
    /\ Window(urls[i]) = Window(urls[1])
    /\ i > 1 =>
         /\ HasContinue(responses[i - 1])
         /\ "uccontinue" \in DOMAIN urls[i].query
         /\ urls[i].query.uccontinue = responses[i - 1].continue.uccontinue

(* C6: get_edits_per_day, over edits grouped contiguously by date, yields
   one (date, count) tuple per distinct date, in the order the dates first
   appear, the count being the number of edits of that date; every count is
   at least 1, the counts sum to the number of edits consumed, and no edits
   give no tuples. *)
C6_PerDayCounts ==
  (consumer = "per_day" /\ pc = "done" /\ Contiguous(DatesOf(yielded))) =>
    LET ds == DatesOf(yielded)
        days == DistinctInOrder(ds)
    IN /\ emitted = [i \in 1..Len(days) |-> <<days[i], CountOf(days[i], ds)>>]
       /\ \A i \in 1..Len(emitted) : emitted[i][2] >= 1
       /\ Sum([i \in 1..Len(emitted) |-> emitted[i][2]]) = Len(yielded)
       /\ (yielded = <<>> => emitted = <<>>)
C6_Witness ==
  /\ consumer = "per_day" /\ pc = "done" /\ Contiguous(DatesOf(yielded))
  /\ Len(emitted) = 2 /\ emitted[1][2] = 2

(* C7: get_edits_for_day, over the edits of one day with titles in any
   order, yields exactly one {title, edits} entry per distinct title, in the
   order of the titles' first occurrence, edits being the number of edits of
   that title; no edits give no entries. *)
C7_ForDayCounts ==
  (consumer = "for_day" /\ pc = "done") =>
    LET ts == TitlesOf(yielded)
        firsts == DistinctInOrder(ts)
    IN /\ result = [i \in 1..Len(firsts) |->
                     [title |-> firsts[i], edits |-> CountOf(firsts[i], ts)]]
       /\ (yielded = <<>> => result = <<>>)
C7_Witness ==
  /\ consumer = "for_day" /\ pc = "done"
  /\ Len(yielded) = 3 /\ yielded[1].title = yielded[3].title
  /\ yielded[1].title # yielded[2].title
  /\ Len(result) = 2 /\ result[1].edits = 2

\* The lines of stdout that a pass of main printed.
PrintedBy(p) == SelectSeq(stdout, LAMBDA line : line.pass = p)
PerDayPrinted == PrintedBy("per_day")
(* C8: run with --limit N (N positive) and no --date, main hands N to the
   fetch as its limit, and as nothing else, in both passes; so the raw
   output holds at most N edits and the per-day counts sum to at most N. *)
C8_CliLimitIsLimit ==
  (main_pc # "lib" /\ args.limit.t = "int" /\ args.limit.v > 0 /\ IsNone(args.date)) =>
    /\ main_pc \in {"raw", "per_day"} =>
         SameValue(limit, args.limit) /\ IsNone(date) /\ IsNone(time_limit)
    /\ Len(PrintedBy("raw")) <= args.limit.v
    /\ Sum([i \in 1..Len(PerDayPrinted) |-> PerDayPrinted[i].item[2]]) <= args.limit.v

(* C9: get_edits_per_day yields the tuple of a run of equal dates only once
   it has consumed an edit of another date or the input has ended normally,
   and one tuple per run: while the fetch runs, and for good when it fails,
   the tuples yielded are the runs before the one in progress, complete. *)
C9_BucketAfterChange ==
  consumer = "per_day" =>
    LET ds == DatesOf(yielded)
    IN IF pc = "done"
       THEN IsRunsOf(emitted, ds)
       ELSE IF ds = <<>>
            THEN emitted = <<>>
            ELSE /\ IsRunsOf(Append(emitted, <<ds[Len(ds)], date_count>>), ds)
                 /\ Sum([i \in 1..Len(emitted) |-> emitted[i][2]]) < Len(ds)
C9_Witness ==
  /\ consumer = "per_day" /\ pc = "fail" /\ Len(responses) >= 2
  /\ HasError(responses[Len(responses)])
  /\ Len(emitted) >= 1 /\ Len(yielded) > Sum([i \in 1..Len(emitted) |-> emitted[i][2]])

(* C10: with a positive limit N, once get_edits has yielded N records it
   issues no further page request, whatever the page layout. *)
C10_NoRequestAfterLimit ==
  [][(Truthy(limit) /\ limit.v > 0 /\ Len(yielded) = limit.v /\ pc \in {"for", "loop"})
       => Len(urls') <= Len(urls)]_vars

====
